---- MODULE Spec2Model ----
(***************************************************************************)
(* Text reflow onto a paged canvas: wrap_text and create_pdf_from_text of  *)
(* app.py.  Strings are sequences of one-character strings.  The canvas    *)
(* is the sequence of calls made on it.  Widths are kept in thousandths of *)
(* a point, the unit in which a font stores its glyph advances, so that   *)
(* stringWidth stays exact in integer arithmetic.                          *)
(***************************************************************************)
EXTENDS Integers, Sequences, FiniteSets, TLC

VARIABLES text, font, font_size, max_width, pc, y, p, l, wrapped_lines,
          calls, raised, saved

vars == <<text, font, font_size, max_width, pc, y, p, l, wrapped_lines,
          calls, raised, saved>>

\* ---------------------------------------------------------------- bounds
MaxLen == 5

\* ------------------------------------------------------------- constants
width == 612
height == 792
inch == 72
margin == 1 * inch
TopInset == 72
BottomMargin == 72
TitleAdvance == 36
TitleExtra == 6
LinePadding == 4
max_width_page == width - 2 * margin

Title ==
  <<"A","I","-","G","e","n","e","r","a","t","e","d"," ","D","o","c","u","m","e","n","t">>

\* ---------------------------------------------------------------- inputs
Alphabet == {"a", "W", " ", "\n"}
Texts == UNION {[1..n -> Alphabet] : n \in 0..MaxLen}
Fonts == {"NotoSans", "NotoSansJP"}
FontSizes == {10, 300, 616, 700}
WrapFontSizes == {1, 300}
WrapWidths == {1, 3, 10, 468}
AlphaText == <<"a","l","p","h","a"," ","b","e","t","a"," ",
               "g","a","m","m","a"," ","d","e","l","t","a">>

\* ------------------------------------------------------- string helpers
Whitespace == {" ", "\n"}

RECURSIVE splitFrom(_, _, _, _)
splitFrom(s, i, cur, acc) ==
  IF i > Len(s)
  THEN IF cur # <<>> THEN Append(acc, cur) ELSE acc
  ELSE IF s[i] \in Whitespace
       THEN splitFrom(s, i + 1, <<>>, IF cur # <<>> THEN Append(acc, cur) ELSE acc)
       ELSE splitFrom(s, i + 1, Append(cur, s[i]), acc)

\* text.split(): maximal runs of non-whitespace characters
split(s) == splitFrom(s, 1, <<>>, <<>>)

RECURSIVE splitNewlineFrom(_, _, _, _)
splitNewlineFrom(s, i, cur, acc) ==
  IF i > Len(s)
  THEN Append(acc, cur)
  ELSE IF s[i] = "\n"
       THEN splitNewlineFrom(s, i + 1, <<>>, Append(acc, cur))
       ELSE splitNewlineFrom(s, i + 1, Append(cur, s[i]), acc)

\* text.split("\n"): empty pieces are kept
paragraphs(s) == splitNewlineFrom(s, 1, <<>>, <<>>)

RECURSIVE lstrip(_)
lstrip(s) == IF s # <<>> /\ Head(s) \in Whitespace THEN lstrip(Tail(s)) ELSE s

RECURSIVE rstrip(_)
rstrip(s) ==
  IF s # <<>> /\ s[Len(s)] \in Whitespace
  THEN rstrip(SubSeq(s, 1, Len(s) - 1)) ELSE s

\* paragraph.strip()
strip(s) == rstrip(lstrip(s))

\* ------------------------------------------------------- drawing surface
\* Glyph advance in thousandths of the font size.  The font files are not
\* part of the source: the two tables stand for a proportional face and a
\* fixed-advance face (the latter gives one unit per character at size 1).
GlyphWidth(f, ch) ==
  IF f = "NotoSansJP" THEN 1000
  ELSE IF ch \in Whitespace THEN 260
  ELSE IF ch = "W" THEN 944
  ELSE 561

RECURSIVE GlyphSum(_, _)
GlyphSum(s, f) == IF s = <<>> THEN 0 ELSE GlyphWidth(f, Head(s)) + GlyphSum(Tail(s), f)

\* canvas_obj.stringWidth(s, font, font_size), in thousandths of a point
stringWidth(s, f, size) == GlyphSum(s, f) * size

Call(op, f, size, yy, s) == [op |-> op, font |-> f, size |-> size, y |-> yy, s |-> s]

\* ------------------------------------------------------------- wrap_text
test_line(current_line, word) ==
  IF current_line # <<>> THEN current_line \o <<" ">> \o word ELSE word

RECURSIVE DropSpaces(_)
DropSpaces(s) ==
  IF s = <<>> THEN <<>>
  ELSE IF Head(s) = " " THEN DropSpaces(Tail(s))
       ELSE <<Head(s)>> \o DropSpaces(Tail(s))

FitsNoSpaces(t, mw, f, size) == stringWidth(DropSpaces(t), f, size) <= mw * 1000

FitsStrict(t, mw, f, size) == stringWidth(t, f, size) < mw * 1000

\* the test of the loop body: stringWidth(test_line, font, font_size) <= max_width
Fits(t, mw, f, size) == stringWidth(t, f, size) <= mw * 1000

WrapStepDrop(st, word, mw, f, size) ==
  IF Fits(test_line(st.current_line, word), mw, f, size)
  THEN [lines |-> st.lines, current_line |-> test_line(st.current_line, word)]
  ELSE [lines |-> st.lines, current_line |-> word]

\* one iteration of "for word in words"
WrapStep(st, word, mw, f, size) ==
  IF Fits(test_line(st.current_line, word), mw, f, size)
  THEN [lines |-> st.lines, current_line |-> test_line(st.current_line, word)]
  ELSE [lines |-> Append(st.lines, st.current_line), current_line |-> word]

RECURSIVE WrapLoop(_, _, _, _, _)
WrapLoop(st, words, mw, f, size) ==
  IF words = <<>> THEN st
  ELSE WrapLoop(WrapStep(st, Head(words), mw, f, size), Tail(words), mw, f, size)

wrap_text(t, mw, f, size) ==
  LET st == WrapLoop([lines |-> <<>>, current_line |-> <<>>], split(t), mw, f, size)
  IN IF st.current_line # <<>> THEN Append(st.lines, st.current_line) ELSE st.lines

\* The canvas calls wrap_text makes, in order: setFont, then one
\* stringWidth per word, each on the test line of that iteration.
RECURSIVE WrapCallsLoop(_, _, _, _, _, _)
WrapCallsLoop(st, words, mw, f, size, acc) ==
  IF words = <<>> THEN acc
  ELSE WrapCallsLoop(WrapStep(st, Head(words), mw, f, size), Tail(words), mw, f, size,
         Append(acc, Call("stringWidth", f, size, 0, test_line(st.current_line, Head(words)))))

WrapCalls(t, mw, f, size) ==
  WrapCallsLoop([lines |-> <<>>, current_line |-> <<>>], split(t), mw, f, size,
                <<Call("setFont", f, size, 0, <<>>)>>)

\* -------------------------------------------------- create_pdf_from_text
\* A canvas call that raises ends the function: there is no handler.
AfterCallSwallow(ok, next) == next

AfterCall(ok, next) == IF ok THEN next ELSE "raised"

LineAdvanceUp(size) == 0 - (size + LinePadding)

\* y -= font_size + 4
LineAdvance(size) == size + LinePadding

BelowBottomZero(yy) == yy < 0

\* if y < 72
BelowBottom(yy) == yy < BottomMargin

NewPageYFull == height

\* y = height - 72 after showPage
NewPageY == height - TopInset

\* where the loops continue once line l - 1 of the paragraph is done
Continue(lines, nl) == IF nl <= Len(lines) THEN "line" ELSE "paragraph"

Init ==
  /\ text \in Texts
  /\ font \in Fonts
  /\ font_size \in FontSizes
  /\ max_width = max_width_page
  /\ y = height - TopInset
  /\ pc = "title_font"
  /\ p = 1
  /\ l = 1
  /\ wrapped_lines = <<>>
  /\ calls = <<>>
  /\ raised = FALSE
  /\ saved = FALSE

\* c.setFont(font, font_size + 6)
TitleFont ==
  /\ pc = "title_font"
  /\ \E ok \in BOOLEAN :
       /\ calls' = Append(calls, Call("setFont", font, font_size + TitleExtra, 0, <<>>))
       /\ raised' = (raised \/ ~ok)
       /\ pc' = AfterCall(ok, "title_color")
  /\ UNCHANGED <<text, font, font_size, max_width, y, p, l, wrapped_lines, saved>>

\* c.setFillColor(colors.HexColor(color_hex))
TitleColor ==
  /\ pc = "title_color"
  /\ \E ok \in BOOLEAN :
       /\ calls' = Append(calls, Call("setFillColor", "color_hex", 0, 0, <<>>))
       /\ raised' = (raised \/ ~ok)
       /\ pc' = AfterCall(ok, "title_draw")
  /\ UNCHANGED <<text, font, font_size, max_width, y, p, l, wrapped_lines, saved>>

\* c.drawString(margin, y, "AI-Generated Document"); y -= 36
TitleDraw ==
  /\ pc = "title_draw"
  /\ \E ok \in BOOLEAN :
       /\ calls' = Append(calls, Call("drawString", font, font_size + TitleExtra, y, Title))
       /\ raised' = (raised \/ ~ok)
       /\ pc' = AfterCall(ok, "body_font")
       /\ y' = IF ok THEN y - TitleAdvance ELSE y
  /\ UNCHANGED <<text, font, font_size, max_width, p, l, wrapped_lines, saved>>

\* c.setFont(font, font_size)
BodyFont ==
  /\ pc = "body_font"
  /\ \E ok \in BOOLEAN :
       /\ calls' = Append(calls, Call("setFont", font, font_size, 0, <<>>))
       /\ raised' = (raised \/ ~ok)
       /\ pc' = AfterCall(ok, "body_color")
  /\ UNCHANGED <<text, font, font_size, max_width, y, p, l, wrapped_lines, saved>>

\* c.setFillColor(colors.black)
BodyColor ==
  /\ pc = "body_color"
  /\ \E ok \in BOOLEAN :
       /\ calls' = Append(calls, Call("setFillColor", "black", 0, 0, <<>>))
       /\ raised' = (raised \/ ~ok)
       /\ pc' = AfterCall(ok, "paragraph")
  /\ UNCHANGED <<text, font, font_size, max_width, y, p, l, wrapped_lines, saved>>

\* for paragraph in text.split("\n"):
\*     wrapped_lines = wrap_text(paragraph.strip(), c, max_width, font, font_size)
\* k = 0: no call of wrap_text raises; k > 0: its k-th canvas call raises.
Paragraph ==
  /\ pc = "paragraph"
  /\ p <= Len(paragraphs(text))
  /\ LET arg == strip(paragraphs(text)[p])
         wc == WrapCalls(arg, max_width, font, font_size)
         lines == wrap_text(arg, max_width, font, font_size)
     IN \E k \in 0..Len(wc) :
          /\ calls' = calls \o (IF k = 0 THEN wc ELSE SubSeq(wc, 1, k))
          /\ raised' = (raised \/ k # 0)
          /\ pc' = AfterCall(k = 0, Continue(lines, 1))
          /\ wrapped_lines' = IF k = 0 THEN lines ELSE wrapped_lines
          /\ l' = IF k = 0 THEN 1 ELSE l
          /\ p' = IF k = 0 THEN p + 1 ELSE p
  /\ UNCHANGED <<text, font, font_size, max_width, y, saved>>

\* c.drawString(margin, y, line); y -= font_size + 4; if y < 72: ...
DrawLine ==
  /\ pc = "line"
  /\ l <= Len(wrapped_lines)
  /\ \E ok \in BOOLEAN :
       /\ calls' = Append(calls, Call("drawString", font, font_size, y, wrapped_lines[l]))
       /\ raised' = (raised \/ ~ok)
       /\ y' = IF ok THEN y - LineAdvance(font_size) ELSE y
       /\ l' = IF ok THEN l + 1 ELSE l
       /\ pc' = AfterCall(ok, IF BelowBottom(y - LineAdvance(font_size))
                              THEN "show_page"
                              ELSE Continue(wrapped_lines, l + 1))
  /\ UNCHANGED <<text, font, font_size, max_width, p, wrapped_lines, saved>>

\* c.showPage(); y = height - 72
ShowPage ==
  /\ pc = "show_page"
  /\ \E ok \in BOOLEAN :
       /\ calls' = Append(calls, Call("showPage", font, 0, 0, <<>>))
       /\ raised' = (raised \/ ~ok)
       /\ y' = IF ok THEN NewPageY ELSE y
       /\ pc' = AfterCall(ok, "reset_font")
  /\ UNCHANGED <<text, font, font_size, max_width, p, l, wrapped_lines, saved>>

\* c.setFont(font, font_size) on the new page
ResetFont ==
  /\ pc = "reset_font"
  /\ \E ok \in BOOLEAN :
       /\ calls' = Append(calls, Call("setFont", font, font_size, 0, <<>>))
       /\ raised' = (raised \/ ~ok)
       /\ pc' = AfterCall(ok, Continue(wrapped_lines, l))
  /\ UNCHANGED <<text, font, font_size, max_width, y, p, l, wrapped_lines, saved>>

\* c.save()
Save ==
  /\ pc = "paragraph"
  /\ p > Len(paragraphs(text))
  /\ \E ok \in BOOLEAN :
       /\ calls' = Append(calls, Call("save", font, 0, 0, <<>>))
       /\ raised' = (raised \/ ~ok)
       /\ saved' = (saved \/ ok)
       /\ pc' = AfterCall(ok, "done")
  /\ UNCHANGED <<text, font, font_size, max_width, y, p, l, wrapped_lines>>

Next ==
  \/ TitleFont
  \/ TitleColor
  \/ TitleDraw
  \/ BodyFont
  \/ BodyColor
  \/ Paragraph
  \/ DrawLine
  \/ ShowPage
  \/ ResetFont
  \/ Save

Spec == Init /\ [][Next]_vars

\* ------------------------------------------------ wrap_text on its own
InitWrap ==
  /\ text \in Texts \cup {AlphaText}
  /\ font \in Fonts
  /\ font_size \in WrapFontSizes
  /\ max_width \in WrapWidths
  /\ y = 0
  /\ pc = "wrap_text"
  /\ p = 1
  /\ l = 1
  /\ wrapped_lines = <<>>
  /\ calls = <<>>
  /\ raised = FALSE
  /\ saved = FALSE

\* lines = wrap_text(text, canvas_obj, max_width, font, font_size)
WrapCall ==
  /\ pc = "wrap_text"
  /\ wrapped_lines' = wrap_text(text, max_width, font, font_size)
  /\ calls' = calls \o WrapCalls(text, max_width, font, font_size)
  /\ pc' = "wrap_return"
  /\ UNCHANGED <<text, font, font_size, max_width, y, p, l, raised, saved>>

NextWrap == WrapCall

SpecWrap == InitWrap /\ [][NextWrap]_vars
\* ------------------------------------------------------------ properties
RECURSIVE Flatten(_)
Flatten(ss) == IF ss = <<>> THEN <<>> ELSE Head(ss) \o Flatten(Tail(ss))

RECURSIVE JoinWords(_)
JoinWords(ws) ==
  IF ws = <<>> THEN <<>>
  ELSE IF Len(ws) = 1 THEN ws[1]
       ELSE ws[1] \o <<" ">> \o JoinWords(Tail(ws))

IsPrefix(a, b) == Len(a) <= Len(b) /\ SubSeq(b, 1, Len(a)) = a

TooWide(s) == stringWidth(s, font, font_size) > max_width * 1000

IsDraw(c) == c.op = "drawString"
IsShowPage(c) == c.op = "showPage"

DrawIdx == {i \in DOMAIN calls : IsDraw(calls[i])}
ShowIdx == {i \in DOMAIN calls : IsShowPage(calls[i])}
BodyDrawIdx == {i \in DrawIdx : \E j \in DrawIdx : j < i}

NumShowPage == Cardinality(ShowIdx)
NumBodyLines == Cardinality(BodyDrawIdx)

DrawnStrings == [i \in 1..Len(SelectSeq(calls, IsDraw)) |-> SelectSeq(calls, IsDraw)[i].s]
BodyDrawn == IF DrawnStrings = <<>> THEN <<>> ELSE Tail(DrawnStrings)

ExpectedBody ==
  Flatten([i \in 1..Len(paragraphs(text)) |->
             wrap_text(strip(paragraphs(text)[i]), max_width, font, font_size)])

\* how often a running sum of n advances, started at acc and restarted at
\* 0 each time, exceeds the usable height
RECURSIVE BreaksBySum(_, _, _, _)
BreaksBySum(n, acc, adv, usable) ==
  IF n = 0 THEN 0
  ELSE IF acc + adv > usable
       THEN 1 + BreaksBySum(n - 1, 0, adv, usable)
       ELSE BreaksBySum(n - 1, acc + adv, adv, usable)

UsableHeight == height - 2 * margin

\* C1: every line wrap_text returns measures at most max_width, or is
\* exactly one word that is itself wider than max_width.
C1_LineWidthBound ==
  pc = "wrap_return" =>
    \A i \in DOMAIN wrapped_lines :
      LET ln == wrapped_lines[i] IN
        \/ ~TooWide(ln)
        \/ (split(ln) = <<ln>> /\ TooWide(ln))

C1_Witness ==
  /\ pc = "wrap_return"
  /\ Len(wrapped_lines) >= 3
  /\ \E i \in DOMAIN wrapped_lines : TooWide(wrapped_lines[i])
  /\ \E i \in DOMAIN wrapped_lines :
       wrapped_lines[i] # <<>> /\ ~TooWide(wrapped_lines[i])

\* C2: the words of the returned lines, concatenated in line order, are
\* exactly text.split().
C2_WordsPreserved ==
  pc = "wrap_return" =>
    Flatten([i \in DOMAIN wrapped_lines |-> split(wrapped_lines[i])]) = split(text)

C2_Witness ==
  /\ pc = "wrap_return"
  /\ Len(split(text)) >= 3
  /\ Len(wrapped_lines) >= 2
  /\ \E i, j \in DOMAIN split(text) : split(text)[i] # split(text)[j]

\* C3: a paragraph that is empty after strip moves the cursor down by one
\* line advance (font_size + 4) and draws nothing.
C3_BlankParagraphAdvances ==
  [][(/\ pc = "paragraph"
      /\ p <= Len(paragraphs(text))
      /\ strip(paragraphs(text)[p]) = <<>>
      /\ ~raised')
     => (/\ y' = y - (font_size + 4)
         /\ \A i \in DOMAIN calls' : i > Len(calls) => ~IsDraw(calls'[i]))]_vars

\* C4: no drawString, title or body line, is made with the cursor below
\* the bottom margin; the cursor is back at or above it before every draw.
C4_NoDrawBelowBottom ==
  /\ \A i \in DrawIdx : calls[i].y >= BottomMargin
  /\ pc \in {"title_draw", "line"} => y >= BottomMargin

C4_Witness ==
  \E i \in ShowIdx : \E j \in DrawIdx :
    i < j /\ calls[j].y = height - TopInset /\ pc = "done"

\* C5 as stated: the number of showPage calls is the number of times the
\* sum of the line advances alone exceeds page_height - 2*margin.
C5_BreaksByLineAdvances ==
  saved => NumShowPage = BreaksBySum(NumBodyLines, 0, font_size + 4, UsableHeight)

\* C5 as amended: the sum starts from the title's advance of 36 on the
\* first page.
C5_BreaksWithTitleAdvance ==
  saved => NumShowPage =
             BreaksBySum(NumBodyLines, TitleAdvance, font_size + 4, UsableHeight)

C5_Witness ==
  /\ saved
  /\ NumShowPage >= 2
  /\ NumBodyLines > NumShowPage

\* C6: every showPage is followed, before save, by a body line drawn at
\* y = height - 72 on the new page, with the body font set again in between.
C6_BreakFollowedByDraw ==
  saved =>
    \A i \in ShowIdx :
      \E j \in DrawIdx :
        /\ j > i
        /\ calls[j].y = height - TopInset
        /\ \A k \in (i + 1)..(j - 1) : ~IsShowPage(calls[k])
        /\ \E k \in (i + 1)..(j - 1) :
             calls[k].op = "setFont" /\ calls[k].size = font_size

\* C7: every returned line is one or more words joined by single spaces,
\* never the empty string, and a word wider than max_width is a line of
\* its own, also when it is the first word.
C7_LinesAreWords ==
  pc = "wrap_return" =>
    /\ \A i \in DOMAIN wrapped_lines :
         /\ wrapped_lines[i] # <<>>
         /\ wrapped_lines[i] = JoinWords(split(wrapped_lines[i]))
    /\ \A k \in DOMAIN split(text) :
         TooWide(split(text)[k]) =>
           /\ Len(wrapped_lines) >= k
           /\ \E i \in DOMAIN wrapped_lines : wrapped_lines[i] = split(text)[k]
    /\ (split(text) # <<>> /\ TooWide(split(text)[1]))
         => wrapped_lines[1] = split(text)[1]

\* C8: the body lines drawn are, in order, the lines of wrap_text(strip(p))
\* over the paragraphs p in order, and on one page every draw is strictly
\* lower than the one before it.
C8_DrawOrder ==
  /\ IsPrefix(BodyDrawn, ExpectedBody)
  /\ saved => BodyDrawn = ExpectedBody
  /\ \A i, j \in DrawIdx :
       (i < j /\ \A k \in i..j : ~IsShowPage(calls[k])) => calls[i].y > calls[j].y

C8_Witness ==
  /\ saved
  /\ Len(paragraphs(text)) >= 2
  /\ \E i \in DOMAIN paragraphs(text) :
       Len(wrap_text(strip(paragraphs(text)[i]), max_width, font, font_size)) >= 2
  /\ NumShowPage >= 1
  /\ \E i, j \in BodyDrawIdx : i < j /\ \A k \in i..j : ~IsShowPage(calls[k])

\* C9: once a canvas call has raised, no further canvas call is made and
\* save never completes.
C9_FailurePropagates ==
  [][/\ raised => calls' = calls
     /\ raised' => ~saved']_vars

C9_Witness ==
  /\ raised
  /\ calls[Len(calls)].op = "stringWidth"
  /\ Cardinality(DrawIdx) >= 2
  /\ ~saved

GreedyLines ==
  \A i \in DOMAIN wrapped_lines :
    i < Len(wrapped_lines) =>
      /\ split(wrapped_lines[i + 1]) # <<>>
      /\ TooWide(test_line(wrapped_lines[i], split(wrapped_lines[i + 1])[1]))

AlphaCase == text = AlphaText /\ max_width = 10 /\ font = "NotoSansJP" /\ font_size = 1

\* C10 as stated: wrapping is greedy (a line followed by another could not
\* have taken the next line's first word), and 'alpha beta gamma delta' at
\* one unit per character and max_width 10 gives exactly the two lines
\* 'alpha beta' and 'gamma delta'.
C10_GreedyTwoLines ==
  pc = "wrap_return" =>
    /\ GreedyLines
    /\ AlphaCase
         => wrapped_lines = << <<"a","l","p","h","a"," ","b","e","t","a">>,
                               <<"g","a","m","m","a"," ","d","e","l","t","a">> >>

\* C10 as amended: wrapping is greedy, and the same text gives the three
\* lines 'alpha beta', 'gamma' and 'delta' ('gamma delta' measures 11).
C10_GreedyThreeLines ==
  pc = "wrap_return" =>
    /\ GreedyLines
    /\ AlphaCase
         => wrapped_lines = << <<"a","l","p","h","a"," ","b","e","t","a">>,
                               <<"g","a","m","m","a">>,
                               <<"d","e","l","t","a">> >>

C10_Witness ==
  /\ pc = "wrap_return"
  /\ AlphaCase
  /\ Len(wrapped_lines) = 3
====
